---- MODULE Spec2Model ----
(***************************************************************************)
(* Student roster ("alunos"): the row-level-security schema of the store   *)
(* (profiles, alunos, their policies and triggers), the list view          *)
(* (AlunosList) and the record form (AlunoForm).                           *)
(*                                                                         *)
(* Text values (nome, email, search input) are sequences of one-character  *)
(* strings, so that trim, length and the e-mail syntax check are computed. *)
(* A NULL auth.uid() (no session) is NoUser; a NULL text column is Null;    *)
(* a null row reference is NoRow.                                          *)
(***************************************************************************)
EXTENDS Integers, Sequences, FiniteSets, TLC

\* ------------------------------------------------------------------ bounds
\* Value of the store clock at which direct requests stop changing alunos.
MaxClock == 3
\* Requests one list view issues in a run.
MaxReqs == 5

\* ------------------------------------------------------- program constants
\* nome: .max(100)
MaxNomeLen == 100

\* auth.uid() when the request carries no session (SQL NULL).
NoUser == 0
\* SQL NULL of a text column.
Null == <<"null">>
\* JS null of a row reference (editingAluno).
NoRow == [id |-> 0]

\* The identities: two, A and B (auth.users ids).
Users == {1, 2}

\* ------------------------------------------------------------ text values
Ana == <<"A", "n", "a">>
Bruno == <<"B", "r", "u", "n", "o">>
MailA == <<"a", "@", "x", ".", "i", "o">>
MailB == <<"b", "@", "x", ".", "i", "o">>
MailC == <<"c", "@", "x", ".", "i", "o">>
Date1 == "2010-05-01"

Emails == {MailA, MailB}

VARIABLES
  \* ---- the store (part_000)
  authUsers,        \* auth.users: set of [id, email]
  profiles,         \* public.profiles: set of [id, email]
  dbAlunos,         \* public.alunos: set of rows
  nextUid,          \* identities created so far (their ids are never reused)
  nextId,           \* ids handed out so far by gen_random_uuid()
  now,              \* the store clock: now()
  lastResp,         \* request and response of the last direct store request
  \* ---- AlunosList state
  user,             \* useAuth().user (its id, or NoUser)
  alunos,           \* useState<Aluno[]>
  filteredAlunos,   \* useState<Aluno[]>: the cards on screen
  searchTerm,
  loading,
  isFormOpen,
  editingAluno,     \* a row or NoRow
  deleteDialogOpen,
  alunoToDelete,    \* an id or 0
  \* ---- AlunoForm state
  nome, email, dataNascimento,
  errors,           \* set of <<field name, message>>
  isLoading,
  \* ---- requests of the view that have not resolved yet
  inflight,
  nextRid

storeVars == <<authUsers, profiles, dbAlunos, nextUid, nextId, now>>
listVars == <<user, alunos, filteredAlunos, searchTerm, loading, isFormOpen,
              editingAluno, deleteDialogOpen, alunoToDelete>>
formVars == <<nome, email, dataNascimento, errors, isLoading>>
netVars == <<inflight, nextRid>>
vars == <<storeVars, lastResp, listVars, formVars, netVars>>

\* =================================================================== store
\* ORDER BY created_at DESC over a set of rows.
RECURSIVE OrderByCreatedAtDesc(_)
OrderByCreatedAtDesc(S) ==
  IF S = {} THEN <<>>
  ELSE LET r == CHOOSE x \in S : \A y \in S : y.created_at <= x.created_at
       IN  <<r>> \o OrderByCreatedAtDesc(S \ {r})

\* A policy that only asks for a session.
OwnsRow_AnySession(uid, r) == uid # NoUser

\* USING (auth.uid() = created_by): NULL = x is never true.
OwnsRow(uid, r) == uid # NoUser /\ uid = r.created_by

\* The row after a payload is applied: the columns the payload names change.
ApplyPayload(r, payload) ==
  [f \in DOMAIN r |-> IF f \in DOMAIN payload THEN payload[f] ELSE r[f]]

\* BEFORE UPDATE trigger update_alunos_updated_at: NEW.updated_at = now().
update_updated_at_column(new, t) == [new EXCEPT !.updated_at = t]

\* SELECT * FROM alunos ORDER BY created_at DESC, under the SELECT policy.
DbSelect(tbl, uid) ==
  [tbl |-> tbl, error |-> "none",
   rows |-> OrderByCreatedAtDesc({r \in tbl : OwnsRow(uid, r)})]

\* An INSERT into a table whose email column is not UNIQUE.
DbInsert_NoUnique(tbl, ids, uid, payload, id, t) ==
  LET row == ApplyPayload([id |-> id, nome |-> Null, email |-> Null,
                           data_nascimento |-> "", created_by |-> NoUser,
                           created_at |-> t, updated_at |-> t], payload)
      err == IF ~OwnsRow(uid, row) THEN "rls"
             ELSE IF row.nome = Null \/ row.email = Null
                     \/ row.data_nascimento = "" THEN "notnull"
             ELSE IF row.created_by \notin ids THEN "fk"
             ELSE "none"
  IN  [tbl |-> IF err = "none" THEN tbl \cup {row} ELSE tbl,
       error |-> err, rows |-> <<>>]

\* INSERT INTO alunos: column defaults, the INSERT policy's WITH CHECK, then
\* the table constraints (NOT NULL, UNIQUE(email), the foreign key).
DbInsert(tbl, ids, uid, payload, id, t) ==
  LET row == ApplyPayload([id |-> id, nome |-> Null, email |-> Null,
                           data_nascimento |-> "", created_by |-> NoUser,
                           created_at |-> t, updated_at |-> t], payload)
      err == IF ~OwnsRow(uid, row) THEN "rls"
             ELSE IF row.nome = Null \/ row.email = Null
                     \/ row.data_nascimento = "" THEN "notnull"
             ELSE IF \E r \in tbl : r.email = row.email THEN "unique"
             ELSE IF row.created_by \notin ids THEN "fk"
             ELSE "none"
  IN  [tbl |-> IF err = "none" THEN tbl \cup {row} ELSE tbl,
       error |-> err, rows |-> <<>>]

\* An UPDATE whose new row is not checked against the policy.
DbUpdate_NoCheck(tbl, uid, target, payload, t) ==
  LET hit == {r \in tbl : r.id = target /\ OwnsRow(uid, r)}
  IN  IF hit = {} THEN [tbl |-> tbl, error |-> "none", rows |-> <<>>]
      ELSE LET old == CHOOSE r \in hit : TRUE
               new == update_updated_at_column(ApplyPayload(old, payload), t)
           IN  [tbl |-> (tbl \ {old}) \cup {new}, error |-> "none", rows |-> <<>>]

\* UPDATE alunos SET payload WHERE id = target: rows the UPDATE policy's USING
\* hides are not touched and raise nothing; the BEFORE UPDATE trigger fires;
\* with no WITH CHECK in the policy its USING also checks the new row.
DbUpdate(tbl, uid, target, payload, t) ==
  LET hit == {r \in tbl : r.id = target /\ OwnsRow(uid, r)}
  IN  IF hit = {} THEN [tbl |-> tbl, error |-> "none", rows |-> <<>>]
      ELSE LET old == CHOOSE r \in hit : TRUE
               new == update_updated_at_column(ApplyPayload(old, payload), t)
               err == IF ~OwnsRow(uid, new) THEN "rls"
                      ELSE IF \E r \in tbl \ {old} : r.email = new.email
                           THEN "unique"
                      ELSE "none"
           IN  [tbl |-> IF err = "none" THEN (tbl \ {old}) \cup {new} ELSE tbl,
                error |-> err, rows |-> <<>>]

\* A DELETE that forgets its WHERE clause.
DbDelete_AllOwned(tbl, uid, target) ==
  [tbl |-> {r \in tbl : ~OwnsRow(uid, r)}, error |-> "none", rows |-> <<>>]

\* DELETE FROM alunos WHERE id = target, under the DELETE policy's USING.
DbDelete(tbl, uid, target) ==
  [tbl |-> {r \in tbl : ~(r.id = target /\ OwnsRow(uid, r))},
   error |-> "none", rows |-> <<>>]

\* One request against public.alunos; t is the transaction's now().
DbExec(tbl, ids, kind, uid, target, payload, id, t) ==
  CASE kind = "select" -> DbSelect(tbl, uid)
    [] kind = "insert" -> DbInsert(tbl, ids, uid, payload, id, t)
    [] kind = "update" -> DbUpdate(tbl, uid, target, payload, t)
    [] kind = "delete" -> DbDelete(tbl, uid, target)

AuthIds == {u.id : u \in authUsers}
RowIds(tbl) == {r.id : r \in tbl}

\* ------------------------------------------------- identities and profiles
\* A trigger that inserts nothing.
handle_new_user_Skip(tbl, new) == [tbl |-> tbl, error |-> "none"]

\* handle_new_user(): INSERT INTO profiles (id, email) VALUES (new.id, new.email)
\* under profiles' NOT NULL and PRIMARY KEY constraints.
handle_new_user(tbl, new) ==
  LET err == IF new.email = Null THEN "notnull"
             ELSE IF \E p \in tbl : p.id = new.id THEN "unique"
             ELSE "none"
  IN  [tbl |-> IF err = "none" THEN tbl \cup {[id |-> new.id, email |-> new.email]}
               ELSE tbl,
       error |-> err]

\* UPDATE profiles SET payload WHERE id = target under "Users can update their
\* own profile": USING (auth.uid() = id), which also checks the new row.
DbUpdateProfile(tbl, uid, target, payload) ==
  LET hit == {p \in tbl : p.id = target /\ uid # NoUser /\ uid = p.id}
  IN  IF hit = {} THEN [tbl |-> tbl, error |-> "none"]
      ELSE LET old == CHOOSE p \in hit : TRUE
               new == ApplyPayload(old, payload)
               err == IF uid # new.id THEN "rls"
                      ELSE IF new.email = Null THEN "notnull"
                      ELSE "none"
           IN  [tbl |-> IF err = "none" THEN (tbl \ {old}) \cup {new} ELSE tbl,
                error |-> err]

Resp(kind, caller, target, payload, error, rows) ==
  [kind |-> kind, caller |-> caller, target |-> target, payload |-> payload,
   error |-> error, rows |-> rows]

NoResp == Resp("none", NoUser, 0, <<>>, "none", <<>>)

\* ============================================ direct requests to the store
\* Any client holding a session (or none) may send any request to the store's
\* API; the policies, constraints and triggers are all that stand in its way.

\* Callers: no session, or the session of an identity created at some time.
Callers == {NoUser} \cup {u \in Users : u < nextUid}

\* The e-mail an identity signs up with: its address, or none (a sign-up
\* without e-mail leaves auth.users.email NULL).
RegEmails(u) == {IF u = 1 THEN MailA ELSE MailB, Null}

\* An updated_at a client writes into its request: a time the store clock
\* does not reach.
ForgedTime == 9

InsertPayloads ==
  {[nome |-> Ana, email |-> e, data_nascimento |-> Date1, created_by |-> c] :
     e \in Emails, c \in Users}
  \cup {[nome |-> Ana, email |-> e, data_nascimento |-> Date1] : e \in Emails}
  \cup {[nome |-> Ana, email |-> MailA, data_nascimento |-> Date1, created_by |-> c,
         updated_at |-> ForgedTime] : c \in Users}

UpdatePayloads ==
  {[email |-> MailA], [updated_at |-> 0]}
  \cup {[created_by |-> c] : c \in Users}

ProfilePayloads == {[email |-> MailB], [id |-> 2]}

\* INSERT INTO auth.users, with the AFTER INSERT trigger on_auth_user_created
\* in the same transaction: an error raised by the trigger aborts the insert.
Register(e) ==
  /\ nextUid \in Users
  /\ LET new == [id |-> nextUid, email |-> e]
         res == handle_new_user(profiles, new)
     IN  /\ profiles' = res.tbl
         /\ authUsers' = IF res.error = "none" THEN authUsers \cup {new} ELSE authUsers
         /\ nextUid' = IF res.error = "none" THEN nextUid + 1 ELSE nextUid
         /\ lastResp' = Resp("register", NoUser, nextUid, [email |-> e], res.error, <<>>)
  /\ UNCHANGED <<dbAlunos, nextId, now, listVars, formVars, netVars>>

\* DELETE FROM auth.users: ON DELETE CASCADE on profiles.id and alunos.created_by.
DeleteIdentity(u) ==
  /\ u \in AuthIds
  /\ authUsers' = {a \in authUsers : a.id # u}
  /\ profiles' = {p \in profiles : p.id # u}
  /\ dbAlunos' = {r \in dbAlunos : r.created_by # u}
  /\ lastResp' = Resp("unregister", NoUser, u, <<>>, "none", <<>>)
  /\ UNCHANGED <<nextUid, nextId, now, listVars, formVars, netVars>>

StoreProfileUpdate(uid, target, payload) ==
  /\ LET res == DbUpdateProfile(profiles, uid, target, payload)
     IN  /\ profiles' = res.tbl
         /\ lastResp' = Resp("profile", uid, target, payload, res.error, <<>>)
  /\ UNCHANGED <<authUsers, dbAlunos, nextUid, nextId, now, listVars, formVars, netVars>>

\* One request against public.alunos, answered at once.
StoreRequest(kind, uid, target, payload) ==
  /\ LET res == DbExec(dbAlunos, AuthIds, kind, uid, target, payload, nextId + 1, now + 1)
     IN  /\ res.tbl # dbAlunos => now < MaxClock
         /\ dbAlunos' = res.tbl
         /\ nextId' = IF kind = "insert" /\ res.error = "none" THEN nextId + 1 ELSE nextId
         /\ now' = IF res.tbl # dbAlunos THEN now + 1 ELSE now
         /\ lastResp' = Resp(kind, uid, target, payload, res.error, res.rows)
  /\ UNCHANGED <<authUsers, profiles, nextUid, listVars, formVars, netVars>>

StoreSelect == \E uid \in Callers : StoreRequest("select", uid, 0, <<>>)
StoreInsert == \E uid \in Callers, p \in InsertPayloads : StoreRequest("insert", uid, 0, p)
StoreUpdate ==
  \E uid \in Callers, id \in 1..nextId, p \in UpdatePayloads :
    StoreRequest("update", uid, id, p)
StoreDelete == \E uid \in Callers, id \in 1..nextId : StoreRequest("delete", uid, id, <<>>)

InitStoreEmpty ==
  /\ authUsers = {} /\ profiles = {} /\ dbAlunos = {}
  /\ nextUid = 1 /\ nextId = 0 /\ now = 0
  /\ lastResp = NoResp

\* The list view and the form as constructed (useState initial values).
InitView ==
  /\ alunos = <<>> /\ filteredAlunos = <<>> /\ searchTerm = <<>>
  /\ loading = TRUE /\ isFormOpen = FALSE
  /\ editingAluno = NoRow /\ deleteDialogOpen = FALSE /\ alunoToDelete = 0
  /\ nome = <<>> /\ email = <<>> /\ dataNascimento = ""
  /\ errors = {} /\ isLoading = FALSE

InitStore ==
  /\ InitStoreEmpty
  /\ InitView
  /\ user = NoUser /\ inflight = {} /\ nextRid = 0

NextStore ==
  \/ \E e \in RegEmails(nextUid) : Register(e)
  \/ \E u \in Users : DeleteIdentity(u)
  \/ \E uid \in Callers, t \in AuthIds, p \in ProfilePayloads : StoreProfileUpdate(uid, t, p)
  \/ StoreSelect
  \/ StoreInsert
  \/ StoreUpdate
  \/ StoreDelete

SpecStore == InitStore /\ [][NextStore]_vars

\* ==================================================================== form
Lower == {"a", "b", "c", "d", "e", "f", "g", "h", "i", "j", "k", "l", "m",
          "n", "o", "p", "q", "r", "s", "t", "u", "v", "w", "x", "y", "z"}
Upper == {"A", "B", "C", "D", "E", "F", "G", "H", "I", "J", "K", "L", "M",
          "N", "O", "P", "Q", "R", "S", "T", "U", "V", "W", "X", "Y", "Z"}
Digits == {"0", "1", "2", "3", "4", "5", "6", "7", "8", "9"}
Space == " "

\* String.prototype.trim(), z.string().trim()
RECURSIVE TrimStart(_)
TrimStart(s) == IF s # <<>> /\ Head(s) = Space THEN TrimStart(Tail(s)) ELSE s
RECURSIVE TrimEnd(_)
TrimEnd(s) ==
  IF s # <<>> /\ s[Len(s)] = Space THEN TrimEnd(SubSeq(s, 1, Len(s) - 1)) ELSE s
Trim(s) == TrimEnd(TrimStart(s))

\* z.string().email(): local@domain, the local part of letters, digits and
\* _ ' + - . (not starting or ending with a dot), no two dots in a row, the
\* domain made of dot-separated labels of letters, digits and hyphens that
\* start with a letter or digit, ending in a label of two or more letters.
IsEmail(s) ==
  LET ats == {i \in 1..Len(s) : s[i] = "@"}
      at == CHOOSE i \in ats : TRUE
      local == SubSeq(s, 1, at - 1)
      domain == SubSeq(s, at + 1, Len(s))
      alnum == Lower \cup Upper \cup Digits
      dots == {i \in 1..Len(domain) : domain[i] = "."}
      lastDot == CHOOSE i \in dots : \A j \in dots : j <= i
  IN  /\ Cardinality(ats) = 1
      /\ local # <<>>
      /\ \A i \in 1..Len(local) : local[i] \in alnum \cup {"_", "'", "+", "-", "."}
      /\ local[1] # "." /\ local[Len(local)] # "."
      /\ \A i \in 1..(Len(s) - 1) : ~(s[i] = "." /\ s[i + 1] = ".")
      /\ dots # {}
      /\ \A i \in 1..Len(domain) : domain[i] \in alnum \cup {"-", "."}
      /\ domain[1] \in alnum
      /\ \A i \in dots : i < Len(domain) /\ domain[i + 1] \in alnum
      /\ Len(domain) - lastDot >= 2
      /\ \A i \in (lastDot + 1)..Len(domain) : domain[i] \in Lower \cup Upper

\* A schema without .trim().
alunoSchema_NoTrim(n, e, d) ==
  (IF Len(n) < 1 THEN {<<"nome", "Nome e obrigatorio">>} ELSE {})
  \cup (IF Len(n) > MaxNomeLen THEN {<<"nome", "Nome muito longo">>} ELSE {})
  \cup (IF ~IsEmail(e) THEN {<<"email", "Email invalido">>} ELSE {})
  \cup (IF d = "" THEN {<<"data_nascimento", "Data de nascimento e obrigatoria">>}
        ELSE {})

\* alunoSchema.safeParse: the issues, as <<path[0], message>> pairs.
alunoSchema(n, e, d) ==
  (IF Len(Trim(n)) < 1 THEN {<<"nome", "Nome e obrigatorio">>} ELSE {})
  \cup (IF Len(Trim(n)) > MaxNomeLen THEN {<<"nome", "Nome muito longo">>} ELSE {})
  \cup (IF ~IsEmail(Trim(e)) THEN {<<"email", "Email invalido">>} ELSE {})
  \cup (IF d = "" THEN {<<"data_nascimento", "Data de nascimento e obrigatoria">>}
        ELSE {})

\* ============================================================ the list view
\* A request of the view. listAtSend is history, not program state: the list
\* as it was when the request went out.
Req(rid, kind, caller, target, payload) ==
  [rid |-> rid, kind |-> kind, caller |-> caller, target |-> target,
   payload |-> payload, phase |-> "sent", error |-> "none", rows |-> <<>>,
   listAtSend |-> alunos]

Mutations == {"insert", "update", "delete"}
Outstanding(kinds) == {q \in inflight : q.kind \in kinds}

\* Room for one more mutation, its re-fetch and the re-fetches of the
\* mutations still outstanding.
RoomForMutation == nextRid + 2 + Cardinality(Outstanding(Mutations)) <= MaxReqs

\* The reset effect of AlunoForm, deps [initialData, open]: initialData is a
\* fresh object on every render of AlunosList while editingAluno is set.
\* Every step below that runs it sets state of AlunosList or shows a toast
\* (useToast is state of AlunosList too), so AlunosList has rendered again.
FormEffect ==
  LET initialDataChanged == editingAluno' # NoRow \/ editingAluno # NoRow
  IN  IF isFormOpen' # isFormOpen \/ initialDataChanged
      THEN /\ nome' = IF editingAluno' # NoRow THEN editingAluno'.nome ELSE <<>>
           /\ email' = IF editingAluno' # NoRow THEN editingAluno'.email ELSE <<>>
           /\ dataNascimento' =
                IF editingAluno' # NoRow THEN editingAluno'.data_nascimento ELSE ""
           /\ errors' = {}
      ELSE UNCHANGED <<nome, email, dataNascimento, errors>>

\* String.prototype.toLowerCase over the letters of the model's alphabet.
UpperSeq == <<"A", "B", "C", "D", "E", "F", "G", "H", "I", "J", "K", "L", "M",
              "N", "O", "P", "Q", "R", "S", "T", "U", "V", "W", "X", "Y", "Z">>
LowerSeq == <<"a", "b", "c", "d", "e", "f", "g", "h", "i", "j", "k", "l", "m",
              "n", "o", "p", "q", "r", "s", "t", "u", "v", "w", "x", "y", "z">>
toLowerCase(s) ==
  [i \in 1..Len(s) |->
     IF \E k \in 1..Len(UpperSeq) : UpperSeq[k] = s[i]
     THEN LowerSeq[CHOOSE k \in 1..Len(UpperSeq) : UpperSeq[k] = s[i]]
     ELSE s[i]]

\* String.prototype.includes: t occurs in s at some offset.
includes(s, t) ==
  \E i \in 0..(Len(s) - Len(t)) : SubSeq(s, i + 1, i + Len(t)) = t

\* A filter that compares the text as typed.
filtered_CaseSensitive(list, term) ==
  IF term # <<>>
  THEN LET keep(aluno) == includes(aluno.nome, term) \/ includes(aluno.email, term)
       IN  SelectSeq(list, keep)
  ELSE list

\* The value the filter effect passes to setFilteredAlunos: an empty
\* searchTerm is falsy and selects the whole list.
filtered(list, term) ==
  IF term # <<>>
  THEN LET keep(aluno) ==
             \/ includes(toLowerCase(aluno.nome), toLowerCase(term))
             \/ includes(toLowerCase(aluno.email), toLowerCase(term))
       IN  SelectSeq(list, keep)
  ELSE list

\* The filter effect, deps [searchTerm, alunos].
FilterEffect ==
  IF searchTerm' # searchTerm \/ alunos' # alunos
  THEN filteredAlunos' = filtered(alunos', searchTerm')
  ELSE UNCHANGED filteredAlunos

\* Dialog and AlertDialog are modal: the page under an open dialog is inert.
NoDialog == ~isFormOpen /\ ~deleteDialogOpen

\* onChange of the search input: setSearchTerm(e.target.value)
SetSearchTerm(v) ==
  /\ NoDialog
  /\ searchTerm' = v
  /\ UNCHANGED <<user, alunos, loading, isFormOpen, editingAluno, deleteDialogOpen,
                 alunoToDelete>>
  /\ FormEffect
  /\ FilterEffect
  /\ UNCHANGED <<isLoading, storeVars, lastResp, netVars>>

\* "Adicionar Aluno": setIsFormOpen(true)
OpenCreate ==
  /\ NoDialog
  /\ isFormOpen' = TRUE
  /\ UNCHANGED <<user, searchTerm, alunos, loading, editingAluno, deleteDialogOpen,
                 alunoToDelete>>
  /\ FormEffect
  /\ FilterEffect
  /\ UNCHANGED <<isLoading, storeVars, lastResp, netVars>>

\* "Editar" on a card: setEditingAluno(aluno); setIsFormOpen(true)
OpenEdit(i) ==
  /\ NoDialog /\ ~loading
  /\ i \in 1..Len(filteredAlunos)
  /\ editingAluno' = filteredAlunos[i]
  /\ isFormOpen' = TRUE
  /\ UNCHANGED <<user, searchTerm, alunos, loading, deleteDialogOpen, alunoToDelete>>
  /\ FormEffect
  /\ FilterEffect
  /\ UNCHANGED <<isLoading, storeVars, lastResp, netVars>>

\* An onOpenChange that only closes the form.
CloseForm_KeepEditing ==
  /\ isFormOpen
  /\ isFormOpen' = FALSE
  /\ UNCHANGED <<user, searchTerm, alunos, loading, editingAluno, deleteDialogOpen,
                 alunoToDelete>>
  /\ FormEffect
  /\ FilterEffect
  /\ UNCHANGED <<isLoading, storeVars, lastResp, netVars>>

\* "Cancelar" (or dismissing the dialog): onOpenChange(false)
CloseForm ==
  /\ isFormOpen
  /\ isFormOpen' = FALSE
  /\ editingAluno' = NoRow
  /\ UNCHANGED <<user, searchTerm, alunos, loading, deleteDialogOpen, alunoToDelete>>
  /\ FormEffect
  /\ FilterEffect
  /\ UNCHANGED <<isLoading, storeVars, lastResp, netVars>>

\* onChange of the three inputs
SetNome(v) ==
  /\ isFormOpen
  /\ nome' = v
  /\ UNCHANGED <<email, dataNascimento, errors, isLoading, listVars, storeVars,
                 lastResp, netVars>>

SetEmail(v) ==
  /\ isFormOpen
  /\ email' = v
  /\ UNCHANGED <<nome, dataNascimento, errors, isLoading, listVars, storeVars,
                 lastResp, netVars>>

SetDataNascimento(v) ==
  /\ isFormOpen
  /\ dataNascimento' = v
  /\ UNCHANGED <<nome, email, errors, isLoading, listVars, storeVars, lastResp, netVars>>

FormData == [nome |-> Trim(nome), email |-> Trim(email), data_nascimento |-> dataNascimento]

\* handleSubmit up to its await: validateForm, then onSubmit, which is
\* handleUpdate while editingAluno is set and handleCreate otherwise.
HandleSubmit ==
  /\ isFormOpen /\ ~isLoading
  /\ LET issues == alunoSchema(nome, email, dataNascimento)
     IN  IF issues # {}
         THEN /\ errors' = issues
              /\ UNCHANGED <<isLoading, netVars>>
         ELSE /\ RoomForMutation
              /\ errors' = {}
              /\ isLoading' = TRUE
              /\ nextRid' = nextRid + 1
              /\ inflight' = inflight \cup
                   {IF editingAluno # NoRow
                    THEN Req(nextRid + 1, "update", user, editingAluno.id, FormData)
                    ELSE Req(nextRid + 1, "insert", user, 0,
                             [nome |-> FormData.nome, email |-> FormData.email,
                              data_nascimento |-> FormData.data_nascimento,
                              created_by |-> user])}
  /\ UNCHANGED <<nome, email, dataNascimento, listVars, storeVars, lastResp>>

\* "Excluir" on a card: confirmDelete(aluno.id)
ConfirmDelete(i) ==
  /\ NoDialog /\ ~loading
  /\ i \in 1..Len(filteredAlunos)
  /\ alunoToDelete' = filteredAlunos[i].id
  /\ deleteDialogOpen' = TRUE
  /\ UNCHANGED <<user, searchTerm, alunos, loading, isFormOpen, editingAluno>>
  /\ FormEffect
  /\ FilterEffect
  /\ UNCHANGED <<isLoading, storeVars, lastResp, netVars>>

\* AlertDialogCancel: onOpenChange(false) is setDeleteDialogOpen(false)
CancelDelete ==
  /\ deleteDialogOpen
  /\ deleteDialogOpen' = FALSE
  /\ UNCHANGED <<user, searchTerm, alunos, loading, isFormOpen, editingAluno, alunoToDelete>>
  /\ FormEffect
  /\ FilterEffect
  /\ UNCHANGED <<isLoading, storeVars, lastResp, netVars>>

\* AlertDialogAction: handleDelete up to its await; the action button also
\* dismisses its dialog.
HandleDelete ==
  /\ deleteDialogOpen
  /\ deleteDialogOpen' = FALSE
  /\ IF alunoToDelete = 0
     THEN UNCHANGED netVars
     ELSE /\ RoomForMutation
          /\ nextRid' = nextRid + 1
          /\ inflight' = inflight \cup {Req(nextRid + 1, "delete", user, alunoToDelete, <<>>)}
  /\ UNCHANGED <<user, searchTerm, alunos, loading, isFormOpen, editingAluno, alunoToDelete>>
  /\ FormEffect
  /\ FilterEffect
  /\ UNCHANGED <<isLoading, storeVars, lastResp>>

\* The store answers a request of the view.
Serve(q) ==
  /\ q \in inflight /\ q.phase = "sent"
  /\ LET res == DbExec(dbAlunos, AuthIds, q.kind, q.caller, q.target, q.payload,
                       nextId + 1, now + 1)
     IN  /\ dbAlunos' = res.tbl
         /\ nextId' = IF q.kind = "insert" /\ res.error = "none" THEN nextId + 1 ELSE nextId
         /\ now' = IF res.tbl # dbAlunos THEN now + 1 ELSE now
         /\ inflight' = (inflight \ {q}) \cup
              {[q EXCEPT !.phase = "served", !.error = res.error, !.rows = res.rows]}
  /\ UNCHANGED <<authUsers, profiles, nextUid, lastResp, listVars, formVars, nextRid>>

\* The request never reaches the store: the client resolves with an error.
ServeTransportError(q) ==
  /\ q \in inflight /\ q.phase = "sent"
  /\ inflight' = (inflight \ {q}) \cup {[q EXCEPT !.phase = "served", !.error = "transport"]}
  /\ UNCHANGED <<storeVars, lastResp, listVars, formVars, nextRid>>

\* A fetchAlunos whose catch block empties the list.
DeliverSelect_ClearOnError(q) ==
  /\ q \in inflight /\ q.phase = "served" /\ q.kind = "select"
  /\ inflight' = inflight \ {q}
  /\ alunos' = IF q.error # "none" THEN <<>> ELSE q.rows
  /\ loading' = FALSE
  /\ UNCHANGED <<user, searchTerm, isFormOpen, editingAluno, deleteDialogOpen, alunoToDelete>>
  /\ FormEffect
  /\ FilterEffect
  /\ UNCHANGED <<isLoading, storeVars, lastResp, nextRid>>

\* fetchAlunos resumes after its await.
DeliverSelect(q) ==
  /\ q \in inflight /\ q.phase = "served" /\ q.kind = "select"
  /\ inflight' = inflight \ {q}
  /\ alunos' = IF q.error # "none" THEN alunos ELSE q.rows
  /\ loading' = FALSE
  /\ UNCHANGED <<user, searchTerm, isFormOpen, editingAluno, deleteDialogOpen, alunoToDelete>>
  /\ FormEffect
  /\ FilterEffect
  /\ UNCHANGED <<isLoading, storeVars, lastResp, nextRid>>

\* A handler that never calls fetchAlunos.
Refetch_Never(q, ok) ==
  /\ UNCHANGED <<loading, nextRid>>
  /\ inflight' = inflight \ {q}

\* fetchAlunos up to its await, called without await by a handler that
\* resumed on request q: setLoading(true) and the select goes out.
Refetch(q, ok) ==
  IF ok
  THEN /\ loading' = TRUE
       /\ nextRid' = nextRid + 1
       /\ inflight' = (inflight \ {q}) \cup {Req(nextRid + 1, "select", user, 0, <<>>)}
  ELSE /\ UNCHANGED <<loading, nextRid>>
       /\ inflight' = inflight \ {q}

\* handleCreate / handleUpdate resume after their await, return, and
\* handleSubmit resumes: setIsLoading(false); onOpenChange(false).
DeliverSubmit(q) ==
  /\ q \in inflight /\ q.phase = "served" /\ q.kind \in {"insert", "update"}
  /\ Refetch(q, q.error = "none")
  /\ isLoading' = FALSE
  /\ isFormOpen' = FALSE
  /\ editingAluno' = NoRow
  /\ UNCHANGED <<user, searchTerm, alunos, deleteDialogOpen, alunoToDelete>>
  /\ FormEffect
  /\ FilterEffect
  /\ UNCHANGED <<storeVars, lastResp>>

\* handleDelete resumes after its await.
DeliverDelete(q) ==
  /\ q \in inflight /\ q.phase = "served" /\ q.kind = "delete"
  /\ Refetch(q, q.error = "none")
  /\ deleteDialogOpen' = FALSE
  /\ alunoToDelete' = 0
  /\ UNCHANGED <<user, searchTerm, alunos, isFormOpen, editingAluno>>
  /\ FormEffect
  /\ FilterEffect
  /\ UNCHANGED <<isLoading, storeVars, lastResp>>

\* A returning user: both identities exist, identity 1 is signed in and owns
\* one row, as does the other identity.
OwnRow ==
  [id |-> 1, nome |-> Ana, email |-> MailA, data_nascimento |-> Date1,
   created_by |-> 1, created_at |-> 1, updated_at |-> 1]
ForeignRow ==
  [id |-> 2, nome |-> Bruno, email |-> MailB, data_nascimento |-> Date1,
   created_by |-> 2, created_at |-> 2, updated_at |-> 2]
InitTables == {{OwnRow, ForeignRow}}

\* The view as mounted: the effect on [user] has called fetchAlunos.
Init ==
  /\ authUsers = {[id |-> 1, email |-> MailA], [id |-> 2, email |-> MailB]}
  /\ profiles = authUsers
  /\ dbAlunos \in InitTables
  /\ nextUid = 3 /\ nextId = 2 /\ now = 2
  /\ lastResp = NoResp
  /\ InitView
  /\ user = 1
  /\ inflight = {Req(1, "select", 1, 0, <<>>)}
  /\ nextRid = 1

\* What the user types in this specification.
NomeInputs == {Bruno, <<>>}
EmailInputs == {MailB, MailC}
DateInputs == {Date1}

Typing(nomes, emails, dates) ==
  \/ \E v \in nomes : SetNome(v)
  \/ \E v \in emails : SetEmail(v)
  \/ \E v \in dates : SetDataNascimento(v)

ViewNext ==
  \/ OpenCreate
  \/ \E i \in 1..Len(filteredAlunos) : OpenEdit(i)
  \/ CloseForm
  \/ HandleSubmit
  \/ \E i \in 1..Len(filteredAlunos) : ConfirmDelete(i)
  \/ CancelDelete
  \/ HandleDelete
  \/ \E q \in inflight : Serve(q)
  \/ \E q \in inflight : ServeTransportError(q)
  \/ \E q \in inflight : DeliverSelect(q)
  \/ \E q \in inflight : DeliverSubmit(q)
  \/ \E q \in inflight : DeliverDelete(q)

Next == ViewNext \/ Typing(NomeInputs, EmailInputs, DateInputs)

Spec == Init /\ [][Next]_vars

\* ======================================================= claims on the store
SeqToSet(q) == {q[i] : i \in 1..Len(q)}

\* C1: a select never returns a row created by another identity, and an update
\* or delete never changes or removes a row created by another identity.
C1_OwnerIsolation ==
  [][/\ lastResp'.kind = "select" =>
          \A r \in SeqToSet(lastResp'.rows) : r.created_by = lastResp'.caller
     /\ lastResp'.kind \in {"update", "delete"} =>
          \A r \in dbAlunos : r.created_by # lastResp'.caller => r \in dbAlunos'
    ]_vars

\* B has just asked to update or delete a row that A created and that exists.
C1_Witness ==
  /\ lastResp.kind \in {"update", "delete"}
  /\ lastResp.caller = 2
  /\ \E r \in dbAlunos : r.id = lastResp.target /\ r.created_by = 1

\* C2: an update or delete aimed at a row of another identity is answered with
\* an authorization error.
C2_ForeignWriteRejected ==
  [][(/\ lastResp'.kind \in {"update", "delete"}
      /\ \E r \in dbAlunos : r.id = lastResp'.target /\ r.created_by # lastResp'.caller)
     => lastResp'.error = "rls"]_vars

\* C8: a new row carries its inserting caller as created_by, and no request
\* changes the created_by of a row.
C8_OwnershipImmutable ==
  [][/\ lastResp'.kind = "insert" =>
          \A r \in dbAlunos' \ dbAlunos :
             lastResp'.caller # NoUser /\ r.created_by = lastResp'.caller
     /\ \A r \in dbAlunos, r2 \in dbAlunos' :
          r.id = r2.id => r2.created_by = r.created_by
    ]_vars

\* The owner of an existing row has just asked to hand it to the other identity.
C8_Witness ==
  /\ lastResp.kind = "update"
  /\ "created_by" \in DOMAIN lastResp.payload
  /\ lastResp.caller # NoUser
  /\ lastResp.payload.created_by # lastResp.caller
  /\ \E r \in dbAlunos : r.id = lastResp.target /\ r.created_by = lastResp.caller

ProfilesOf(u) == {p \in profiles : p.id = u}

\* C9 as stated: every identity has exactly one profile, whose id and e-mail
\* are the identity's id and e-mail at registration.
C9_ProfileMirrorsIdentity ==
  \A u \in authUsers : ProfilesOf(u.id) = {[id |-> u.id, email |-> u.email]}

\* C9 amended: every identity has exactly one profile, with its id; the profile
\* is created with the identity's e-mail, a failed profile insert leaves no
\* identity behind, and only the identity itself changes its profile's e-mail.
C9_OneProfilePerIdentity ==
  [][/\ \A u \in authUsers' : Cardinality({p \in profiles' : p.id = u.id}) = 1
     /\ \A u \in authUsers' \ authUsers :
          [id |-> u.id, email |-> u.email] \in profiles'
     /\ (lastResp'.kind = "register" /\ lastResp'.error # "none") =>
          authUsers' = authUsers /\ profiles' = profiles
     /\ \A p \in profiles, p2 \in profiles' :
          (p.id = p2.id /\ p.email # p2.email) =>
            lastResp'.kind = "profile" /\ lastResp'.caller = p.id
    ]_vars

\* An identity whose profile no longer shows its registration e-mail.
C9_Witness ==
  \E u \in authUsers : \E p \in profiles : p.id = u.id /\ p.email # u.email

Long100 == [i \in 1..MaxNomeLen |-> "a"]
FormNomes ==
  {<<>>, <<Space, Space>>, <<Space>> \o Ana \o <<Space>>, Long100,
   Long100 \o <<"a">>, Long100 \o <<Space>>}
FormEmails ==
  {<<>>, <<"n", "o", "t", "-", "a", "n", "-", "e", "m", "a", "i", "l">>,
   <<"a", "@", "b">>, <<"a", ".", "@", "x", ".", "i", "o">>,
   <<Space>> \o MailC \o <<Space>>}
FormDates == {"", Date1}

\* The user submits any number of forms that fail validation, and the first
\* one that passes.
NextForm ==
  \/ OpenCreate
  \/ \E i \in 1..Len(filteredAlunos) : OpenEdit(i)
  \/ CloseForm
  \/ HandleSubmit /\ (nextRid' = nextRid \/ nextRid = 1)
  \/ \E q \in inflight : Serve(q)
  \/ \E q \in inflight : DeliverSelect(q)
  \/ \E q \in inflight : DeliverSubmit(q)
  \/ Typing(FormNomes, FormEmails, FormDates)

SpecForm == Init /\ [][NextForm]_vars

\* C5: a submit with an invalid field calls no onSubmit and sends nothing,
\* leaves the form open, and sets errors to one message per invalid field.
C5_InvalidFields ==
  (IF Trim(nome) = <<>> \/ Len(Trim(nome)) > MaxNomeLen THEN {"nome"} ELSE {})
  \cup (IF ~IsEmail(Trim(email)) THEN {"email"} ELSE {})
  \cup (IF dataNascimento = "" THEN {"data_nascimento"} ELSE {})

C5_InvalidSubmitStaysLocal ==
  [][(HandleSubmit /\ C5_InvalidFields # {}) =>
       /\ UNCHANGED <<inflight, nextRid, isLoading, dbAlunos>>
       /\ isFormOpen' /\ editingAluno' = editingAluno
       /\ {e[1] : e \in errors'} = C5_InvalidFields
       /\ Cardinality(errors') = Cardinality(C5_InvalidFields)]_vars

\* The form is open showing an error for a blank name, and only for it.
C5_Witness ==
  /\ isFormOpen
  /\ nome # <<>> /\ Trim(nome) = <<>>
  /\ {e[1] : e \in errors} = {"nome"}
  /\ C5_InvalidFields = {"nome"}

\* ================================================ claims on the list view
Failed(q) == q.phase = "served" /\ q.error # "none"
Resolves(q) == q \in inflight /\ q.phase = "served" /\ q \notin inflight'

\* C3: when the create or update request of a submitted form resolves, the
\* form is closed if the request succeeded, and is as it was (open, in the
\* same mode) if the request failed.
C3_FormOpenAfterFailure ==
  [][\A q \in Outstanding({"insert", "update"}) :
       Resolves(q) =>
         IF q.error = "none" THEN ~isFormOpen'
         ELSE isFormOpen' = isFormOpen /\ editingAluno' = editingAluno]_vars

\* C4: at most one insert, update or delete of the view is outstanding.
C4_OneMutationAtATime == Cardinality(Outstanding(Mutations)) <= 1

C7_EmailUnique ==
  [][/\ \A q \in Outstanding({"insert"}) :
          \A q2 \in inflight' :
            (/\ q.phase = "sent" /\ q2.rid = q.rid /\ q2.phase = "served"
             /\ q2.error # "transport"
             /\ \E r \in dbAlunos : r.email = q.payload.email)
            => q2.error = "unique" /\ dbAlunos' = dbAlunos
     /\ \A q \in Outstanding({"insert"}) :
          (Resolves(q) /\ q.error = "unique") => alunos' = alunos
     /\ \A r1, r2 \in dbAlunos' : r1.email = r2.email => r1 = r2
    ]_vars

\* A create was refused because a row of the other identity has its e-mail.
C7_Witness ==
  \E q \in Outstanding({"insert"}) :
    /\ q.error = "unique"
    /\ \E r \in dbAlunos : r.email = q.payload.email /\ r.created_by # q.caller

\* C11 as stated: when a create, update or delete of the view resolves, a
\* fetch of the list goes out, and the list changes only by becoming the rows
\* of a fetch response.
C11_RefetchAfterEveryMutation ==
  [][/\ \A q \in Outstanding(Mutations) :
          Resolves(q) =>
            \E f \in inflight' \ inflight : f.kind = "select" /\ f.phase = "sent"
     /\ alunos' # alunos =>
          \E f \in Outstanding({"select"}) : Resolves(f) /\ alunos' = f.rows
    ]_vars

\* C11 amended: when a create, update or delete of the view resolves, a fetch
\* of the list goes out if and only if the request succeeded, and the list
\* changes only by becoming the rows of a successful fetch response.
C11_RefetchAfterSuccess ==
  [][/\ \A q \in Outstanding(Mutations) :
          Resolves(q) =>
            (q.error = "none" <=>
               \E f \in inflight' \ inflight :
                  f.kind = "select" /\ f.phase = "sent" /\ f.caller = user)
     /\ alunos' # alunos =>
          \E f \in Outstanding({"select"}) :
             Resolves(f) /\ f.error = "none" /\ alunos' = f.rows
    ]_vars

\* The fetch that followed a successful delete has replaced a list of one
\* record by the empty list.
C11_Witness ==
  /\ alunos = <<>> /\ ~loading
  /\ dbAlunos = {ForeignRow}
  /\ nextRid >= 3
  /\ Outstanding({"select"}) = {}

\* --------------------------------------------------------------- the search
\* What the user types in the search input in SpecSearch: nothing, a part of
\* a name and a part of an e-mail, each in another case than the stored text.
SearchInputs == {<<>>, <<"a", "N">>, <<"C", "@">>}

\* The user searches while creating, editing and deleting records; every
\* request reaches the store.
NextSearch ==
  \/ \E v \in SearchInputs : SetSearchTerm(v)
  \/ OpenCreate
  \/ \E i \in 1..Len(filteredAlunos) : OpenEdit(i)
  \/ CloseForm
  \/ HandleSubmit
  \/ \E i \in 1..Len(filteredAlunos) : ConfirmDelete(i)
  \/ CancelDelete
  \/ HandleDelete
  \/ \E q \in inflight : Serve(q)
  \/ \E q \in inflight : DeliverSelect(q)
  \/ \E q \in inflight : DeliverSubmit(q)
  \/ \E q \in inflight : DeliverDelete(q)
  \/ Typing({Bruno}, {MailC}, {Date1})

SpecSearch == Init /\ [][NextSearch]_vars

\* The small letter of each capital letter.
C12_Small ==
  [c \in Upper |-> LowerSeq[CHOOSE k \in 1..Len(UpperSeq) : UpperSeq[k] = c]]

\* The letters c and d are the same letter, in whatever case.
C12_SameLetter(c, d) ==
  (IF c \in Upper THEN C12_Small[c] ELSE c) = (IF d \in Upper THEN C12_Small[d] ELSE d)

\* text contains term, ignoring case.
C12_Contains(text, term) ==
  \E off \in 0..(Len(text) - Len(term)) :
    \A j \in 1..Len(term) : C12_SameLetter(text[off + j], term[j])

\* The positions of list whose name or e-mail contains term.
C12_Hits(list, term) ==
  {i \in 1..Len(list) :
     C12_Contains(list[i].nome, term) \/ C12_Contains(list[i].email, term)}

\* The entries of list at the positions I, in the order of list.
RECURSIVE C12_EntriesAt(_, _)
C12_EntriesAt(list, I) ==
  IF I = {} THEN <<>>
  ELSE LET first == CHOOSE i \in I : \A j \in I : i <= j
       IN  <<list[first]>> \o C12_EntriesAt(list, I \ {first})

\* C12: after every step filteredAlunos holds, in the order of alunos, exactly
\* the entries of alunos whose name or e-mail contains the search term ignoring
\* case, and is alunos when the term is empty; a step that changes the search
\* term sends no request and changes neither alunos nor the store.
C12_FilterIsCaseInsensitiveSubsequence ==
  [][/\ filteredAlunos' = C12_EntriesAt(alunos', C12_Hits(alunos', searchTerm'))
     /\ searchTerm' = <<>> => filteredAlunos' = alunos'
     /\ searchTerm' # searchTerm => UNCHANGED <<alunos, inflight, nextRid, storeVars>>
    ]_vars

\* Of two records on the list, Bruno and Ana, the search for "aN" shows Ana.
C12_Witness ==
  /\ searchTerm = <<"a", "N">>
  /\ Len(alunos) = 2
  /\ alunos[1].nome = Bruno /\ alunos[2].nome = Ana
  /\ Len(filteredAlunos) = 1 /\ filteredAlunos[1].nome = Ana

\* ------------------------------------------------------------ timestamps
\* C13: an update that changes a row leaves it with the store's time of that
\* update as updated_at, whatever the request carries; no update lowers the
\* updated_at of a row.
C13_UpdatedAtNeverDecreases ==
  [][lastResp'.kind = "update" =>
       \A r \in dbAlunos, r2 \in dbAlunos' :
          r.id = r2.id =>
            /\ r2 # r => r2.updated_at = now'
            /\ r2.updated_at >= r.updated_at]_vars

\* ------------------------------------------------- overlapping fetches
\* One session in which every request reaches the store and succeeds.
NextAllSucceed ==
  \/ OpenCreate
  \/ \E i \in 1..Len(filteredAlunos) : OpenEdit(i)
  \/ CloseForm
  \/ HandleSubmit
  \/ \E i \in 1..Len(filteredAlunos) : ConfirmDelete(i)
  \/ CancelDelete
  \/ HandleDelete
  \/ \E q \in inflight : Serve(q) /\ \A q2 \in inflight' : q2.error = "none"
  \/ \E q \in inflight : DeliverSelect(q)
  \/ \E q \in inflight : DeliverSubmit(q)
  \/ \E q \in inflight : DeliverDelete(q)
  \/ Typing({Bruno}, {MailC}, {Date1})

SpecAllSucceed == Init /\ [][NextAllSucceed]_vars

\* C14: when no request of the session is outstanding, and all have succeeded,
\* the list holds exactly the rows the identity owns in the store.
C14_ListIsOwnedSetWhenIdle ==
  inflight = {} => SeqToSet(alunos) = {r \in dbAlunos : r.created_by = user}

\* ------------------------------------------------------- the form's mode
\* C15: after every step a closed form has no editingAluno; "Adicionar Aluno"
\* opens the form with no editingAluno and empty fields; editingAluno is only
\* ever set to the record of the card whose "Editar" was clicked; a submit
\* sends an update for editingAluno's id when there is one and an insert
\* otherwise.
C15_ClosedFormHasNoEditingAluno ==
  [][/\ ~isFormOpen' => editingAluno' = NoRow
     /\ OpenCreate =>
          /\ isFormOpen' /\ editingAluno' = NoRow
          /\ nome' = <<>> /\ email' = <<>> /\ dataNascimento' = ""
     /\ (editingAluno' # editingAluno /\ editingAluno' # NoRow) =>
          /\ ~isFormOpen /\ isFormOpen'
          /\ \E i \in 1..Len(filteredAlunos) : filteredAlunos[i] = editingAluno'
     /\ \A q \in inflight' \ inflight :
          /\ (q.phase = "sent" /\ q.kind = "update") =>
               isFormOpen /\ editingAluno # NoRow /\ q.target = editingAluno.id
          /\ (q.phase = "sent" /\ q.kind = "insert") =>
               isFormOpen /\ editingAluno = NoRow
    ]_vars

\* An edit of record 1 was submitted and the form dismissed while the update
\* was outstanding; "Adicionar Aluno" has then opened an empty create form.
C15_Witness ==
  /\ \E q \in Outstanding({"update"}) : q.target = 1
  /\ isFormOpen /\ editingAluno = NoRow
  /\ nome = <<>> /\ email = <<>> /\ dataNascimento = ""

====
